---------------------------- MODULE Spec2Model ----------------------------
(***************************************************************************)
(* Model of high_dimensional_sampling/experiments.py: the experiment       *)
(* control loop (Experiment._perform_experiment), the two stopping         *)
(* criteria (OptimisationExperiment, PosteriorSamplingExperiment) and the  *)
(* Logger.                                                                 *)
(*                                                                         *)
(* Conventions.                                                            *)
(*  - An optional value is a sequence: None is <<>>, the value v is <<v>>.  *)
(*    self.n_sampled of an OptimisationExperiment is None or a list that   *)
(*    is never empty, so None is the empty list there.                     *)
(*  - Function values (y, optimals) and epsilon are written in hundredths: *)
(*    1000 stands for 10.0, 895 for 8.95, epsilon 10 for 0.1.  The values  *)
(*    of YVals and Epsilons are chosen so that no difference or ratio the  *)
(*    code compares lies within a rounding error of epsilon, apart from    *)
(*    9 - 8.9 against 0.1, where the float result 0.0999... and the exact  *)
(*    one agree (neither is > 0.1).                                        *)
(*  - A batch x is [len, dim]; a batch y is [len, dim, min]: the shape of  *)
(*    the numpy arrays and numpy.min(y).  Nothing else of them is read.    *)
(*  - Elapsed times (dt) are not modelled: no decision depends on them.    *)
(*  - An exception leaves the loop at the statement that raised it:        *)
(*    pc = "raised" and error names the exception.                         *)
(***************************************************************************)
EXTENDS Integers, Sequences, FiniteSets, TLC

VARIABLES
    kind,                  \* class of the experiment object
    pc,                    \* position of the run in _perform_experiment
    error,                 \* exception that ended the run, or "none"
    epsilon,               \* self.epsilon
    absolute_improvement,  \* self.absolute_improvement
    patience,              \* self.patience
    finish_line,           \* self.finish_line
    log_data,              \* argument log_data
    self_n_sampled,        \* self.n_sampled (None, a list, or an integer)
    optimals,              \* self.optimals
    logger_ref,            \* self.logger: "None", "set" or "deleted"
    logger,                \* the state of the Logger instance
    counter,               \* function.counter
    is_finished,           \* local is_finished of _perform_experiment
    n_sampled,             \* local n_sampled of _perform_experiment
    x,                     \* local x: last batch of points
    y,                     \* local y: last batch of function values
    method_is_finished,    \* value of self.method.is_finished(), line 103
    stop_experiment,       \* value of self._stop_experiment(x, y), line 104
    experiment_yaml,       \* number of writes of <path>/experiment.yaml
    benchmarks_yaml,       \* number of writes of <basepath>/benchmarks.yaml
    direct_calls,          \* calls made on a Logger used on its own
    bench_pc,              \* position of each run inside log_benchmarks
    bench_id,              \* number of the log_benchmarks call of each run
    bench_dumps,           \* calls whose yaml.dump is in benchmarks.yaml
    bench_mode,            \* runs launched one after another, or at once
    bench_calls,           \* log_benchmarks calls begun on the base path
    sampled_since          \* value of _sampled_since_last_improvement()

vars == <<kind, pc, error, epsilon, absolute_improvement, patience,
          finish_line, log_data, self_n_sampled, optimals, logger_ref, logger,
          counter,
          is_finished, n_sampled, x, y, method_is_finished, stop_experiment,
          experiment_yaml, benchmarks_yaml, direct_calls,
          bench_pc, bench_id, bench_dumps, bench_mode, bench_calls,
          sampled_since>>

argVars == <<epsilon, absolute_improvement, patience, finish_line, log_data>>
criterionVars == <<self_n_sampled, optimals>>
localVars == <<is_finished, n_sampled, x, y, method_is_finished,
               stop_experiment>>
fileVars == <<experiment_yaml, benchmarks_yaml>>
benchVars == <<bench_pc, bench_id, bench_dumps, bench_mode, bench_calls>>
sideVars == <<benchVars, sampled_since>>

---------------------------------------------------------------------------
(* Bounds of the model *)

\* iterations of the while loop a run may take
MaxIter == 4
\* largest number of points in one batch
MaxBatch == 2
\* calls made on a Logger used on its own
MaxLogCalls == 2
\* log_benchmarks calls made on one base path
MaxBenchCalls == 3
\* longest optimals list the scan is applied to on its own
MaxScanLen == 4

None == <<>>
Some(v) == <<v>>
Val(o) == o[1]

\* per-iteration minima numpy.min(y) may return, in hundredths
YVals == {890, 895, 900, 1000}
\* values of the epsilon argument, in hundredths
Epsilons == {10, 102}
Patiences == {1, 2}
FinishLines == {None, Some(2), Some(5)}
\* column counts of x and y
Dims == {1, 2}

Handles == {"samples", "functioncalls", "methodcalls"}

\* runs that may be inside log_benchmarks on one base path at a time
Procs == {1, 2}

EmptyX == [len |-> 0, dim |-> 1]
\* numpy.min of an empty array raises: min is never read when len = 0
EmptyY == [len |-> 0, dim |-> 1, min |-> 0]

Min2(a, b) == IF a <= b THEN a ELSE b

---------------------------------------------------------------------------
(* Logger *)

\* No Logger instance: nothing opened, nothing written.
NoLogger ==
    [method_calls |-> 0,
     create_samples_header |-> TRUE,
     handles |-> [h \in Handles |-> "absent"],
     samples |-> <<>>,
     functioncalls |-> <<>>,
     methodcalls |-> <<>>,
     flushed |-> [h \in Handles |-> 0]]

\* Logger.__init__ and Logger._create_handles: three handles opened for
\* writing, the two fixed headers written.  flushed[h] is the number of
\* lines of stream h that have left the writer's buffer: a write leaves its
\* line in the buffer (the lines are far shorter than the buffer), flush()
\* and close() empty it.
LoggerInit ==
    [method_calls |-> 0,
     create_samples_header |-> TRUE,
     handles |-> [h \in Handles |-> "open"],
     samples |-> <<>>,
     functioncalls |-> <<[header |-> TRUE, id |-> 0, n_queried |-> 0]>>,
     methodcalls |-> <<[header |-> TRUE, id |-> 0, total |-> 0, new |-> 0]>>,
     flushed |-> [h \in Handles |-> 0]]

\* The number of handles of a Logger.
HandleCount == Cardinality(Handles)

\* The order in which _create_handles opens the handles.
HandleOrder == <<"samples", "functioncalls", "methodcalls">>

\* Logger.__init__ when _create_handles got as far as opening its first k
\* handles: k = 3 is LoggerInit; with k < 3 the next open raised (or, with
\* k = 0, create_unique_folder did) and the instance has the attributes of
\* the first k handles only.
CreateHandles(k) ==
    [LoggerInit EXCEPT
        !.handles = [h \in Handles |->
                        IF \E i \in 1..k : HandleOrder[i] = h
                        THEN "open" ELSE "absent"],
        !.functioncalls = IF k >= 2 THEN @ ELSE <<>>,
        !.methodcalls = IF k >= 3 THEN @ ELSE <<>>]

\* The lines written to stream h so far.
Stream(lg, h) ==
    IF h = "samples" THEN lg.samples
    ELSE IF h = "functioncalls" THEN lg.functioncalls
    ELSE lg.methodcalls

\* handle.flush() and the flush of handle.close().
Flush(lg, h) == [lg EXCEPT !.flushed[h] = Len(Stream(lg, h))]

\* LoggerDel whose loop ends after its first handle.
LoggerDelFirstOnly(lg) ==
    [lg EXCEPT
        !.handles["samples"] = IF @ = "absent" THEN "absent" ELSE "closed",
        !.flushed["samples"] = IF lg.handles["samples"] = "open"
                               THEN Len(lg.samples) ELSE @]

\* Logger.__del__: every handle the instance has is closed (hasattr skips
\* the others); closing a handle that is open flushes it.
LoggerDel(lg) ==
    [lg EXCEPT
        !.handles =
            [h \in Handles |-> IF lg.handles[h] = "absent" THEN "absent"
                               ELSE "closed"],
        !.flushed =
            [h \in Handles |-> IF lg.handles[h] = "open"
                               THEN Len(Stream(lg, h))
                               ELSE lg.flushed[h]]]

\* The lines log_samples writes for rows 1..n of a batch.
RECURSIVE SampleRows(_, _, _, _)
SampleRows(id, n, dx, dy) ==
    IF n = 0 THEN <<>>
    ELSE Append(SampleRows(id, n - 1, dx, dy),
                [header |-> FALSE, id |-> id, nx |-> dx, ny |-> dy])

\* Logger.log_samples(x, y).  x[0] and y[0] raise IndexError on an empty
\* array, before the header is written; labels[i] raises IndexError at the
\* first row y does not have, after the rows before it were written and
\* before the flush of line 384.
LogSamples(lg, bx, by) ==
    LET needHeader == lg.create_samples_header
        headerFails == needHeader /\ (bx.len = 0 \/ by.len = 0)
        withHeader ==
            IF needHeader
            THEN [lg EXCEPT
                    !.samples = Append(@, [header |-> TRUE, id |-> 0,
                                           nx |-> bx.dim, ny |-> by.dim]),
                    !.create_samples_header = FALSE]
            ELSE lg
        written == Min2(bx.len, by.len)
        withRows == [withHeader EXCEPT !.samples =
                        @ \o SampleRows(lg.method_calls, written,
                                        bx.dim, by.dim)]
    IN  IF headerFails
        THEN [logger |-> lg, error |-> "IndexError"]
        ELSE IF bx.len > by.len
        THEN [logger |-> withRows, error |-> "IndexError"]
        ELSE [logger |-> Flush(withRows, "samples"), error |-> "none"]

\* LogMethodCalls with its two sizes written in each other's column.
LogMethodCallsSwapped(lg, size_total, size_generated) ==
    [lg EXCEPT !.methodcalls =
        Append(@, [header |-> FALSE, id |-> lg.method_calls,
                   total |-> size_generated, new |-> size_total])]

\* Logger.log_method_calls(dt, size_total, size_generated).
LogMethodCalls(lg, size_total, size_generated) ==
    [lg EXCEPT !.methodcalls =
        Append(@, [header |-> FALSE, id |-> lg.method_calls,
                   total |-> size_total, new |-> size_generated])]

\* The lines log_function_calls writes for the entries of a counter.
RECURSIVE FunctionCallRows(_, _)
FunctionCallRows(id, entries) ==
    IF entries = <<>> THEN <<>>
    ELSE <<[header |-> FALSE, id |-> id, n_queried |-> Head(entries)]>>
         \o FunctionCallRows(id, Tail(entries))

\* LogFunctionCalls whose loop stops one entry early.
LogFunctionCallsDropsLast(lg, entries) ==
    [lg EXCEPT !.functioncalls =
        @ \o FunctionCallRows(lg.method_calls,
                              SubSeq(entries, 1, Len(entries) - 1))]

\* Logger.log_function_calls(function).
LogFunctionCalls(lg, entries) ==
    [lg EXCEPT !.functioncalls = @ \o FunctionCallRows(lg.method_calls, entries)]

\* BenchmarksExists that never finds the file.
BenchmarksNeverExists(writes) == FALSE

\* The test of line 436: os.path.exists of benchmarks.yaml.  The base path
\* starts without the file, which exists once it was opened for writing.
BenchmarksExists(writes) == writes > 0

\* Logger.log_benchmarks: the number of writes of benchmarks.yaml after the
\* call, given the number before it.
LogBenchmarks(writes) == IF BenchmarksExists(writes) THEN writes ELSE writes + 1

\* LogExperiment that writes nothing.
LogExperimentSkipped(writes) == writes

\* Logger.log_experiment: experiment.yaml of the run's folder is written.
LogExperiment(writes) == writes + 1

---------------------------------------------------------------------------
(* Stopping criteria *)

Last(s) == s[Len(s)]

\* The test of line 232 for candidate i: cut - optimals[i] > epsilon, or
\* optimals[i] / float(cut) > epsilon.  A numpy division by zero gives
\* inf, -inf or nan and raises nothing.
Condition(opt, i, eps, absolute) ==
    LET cut == Last(opt)
    IN  IF absolute
        THEN cut - opt[i] > eps
        ELSE IF cut > 0 THEN 100 * opt[i] > eps * cut
             ELSE IF cut < 0 THEN 100 * opt[i] < eps * cut
             ELSE opt[i] > 0

\* The loop of lines 227-233, from candidate i downwards to 1; index 0 of
\* the Python lists is index 1 here.
RECURSIVE ScanFrom(_, _, _, _, _)
ScanFrom(i, opt, ns, eps, absolute) ==
    IF i < 2 THEN Last(ns) - ns[1]
    ELSE IF Condition(opt, i, eps, absolute) THEN Last(ns) - ns[i]
    ELSE ScanFrom(i - 1, opt, ns, eps, absolute)

\* SampledSinceLastImprovement whose range starts at the last index.
SampledSinceIncludingLast(opt, ns, eps, absolute) ==
    ScanFrom(Len(opt), opt, ns, eps, absolute)

\* OptimisationExperiment._sampled_since_last_improvement.
SampledSinceLastImprovement(opt, ns, eps, absolute) ==
    ScanFrom(Len(opt) - 1, opt, ns, eps, absolute)

\* HardCap with the cap one point too high.
HardCapOffByOne(total, line) == total > line + 1

\* The comparison of line 210: n_sampled[-1] > finish_line.
HardCap(total, line) == total > line

\* The comparison of line 213.
OutOfPatience(since, pat) == since > pat

\* CumulativeCount that appends the size of the batch alone.
CumulativeCountRestarts(ns, n) ==
    IF ns = None THEN <<n>> ELSE Append(ns, n)

\* Lines 206-209: self.n_sampled after the batch of n points is counted.
CumulativeCount(ns, n) ==
    IF ns = None THEN <<n>> ELSE Append(ns, Last(ns) + n)

\* OptimisationExperiment._stop_experiment(x, y): the value returned (or
\* the exception raised) and the attributes after the call.
OptimisationStop(ns, opt, bx, by, line, eps, absolute, pat) ==
    LET ns1 == CumulativeCount(ns, bx.len)
        opt1 == Append(opt, by.min)
    IN  IF line = None
        THEN [ret |-> None, error |-> "TypeError",
              n_sampled |-> ns1, optimals |-> opt]
        ELSE IF HardCap(Last(ns1), Val(line))
        THEN [ret |-> Some(TRUE), error |-> "none",
              n_sampled |-> ns1, optimals |-> opt]
        ELSE IF by.len = 0
        THEN [ret |-> None, error |-> "ValueError",
              n_sampled |-> ns1, optimals |-> opt]
        ELSE [ret |-> Some(OutOfPatience(
                        SampledSinceLastImprovement(opt1, ns1, eps, absolute),
                        pat)),
              error |-> "none", n_sampled |-> ns1, optimals |-> opt1]

\* FinishLineReached with a strict comparison.
FinishLineExceeded(total, line) == total > line

\* The comparison of line 301: self.n_sampled >= self.finish_line.
FinishLineReached(total, line) == total >= line

\* PosteriorStop that assigns the size of the batch instead of adding it.
PosteriorStopNoAccumulate(ns, bx, line) ==
    IF line = None
    THEN [ret |-> None, error |-> "TypeError", n_sampled |-> bx.len]
    ELSE [ret |-> Some(FinishLineReached(bx.len, Val(line))),
          error |-> "none", n_sampled |-> bx.len]

\* PosteriorSamplingExperiment._stop_experiment(x, y).
PosteriorStop(ns, bx, line) ==
    LET ns1 == ns + bx.len
    IN  IF line = None
        THEN [ret |-> None, error |-> "TypeError", n_sampled |-> ns1]
        ELSE [ret |-> Some(FinishLineReached(ns1, Val(line))), error |-> "none",
              n_sampled |-> ns1]

---------------------------------------------------------------------------
(* Experiment control loop *)

Optimisation == "OptimisationExperiment"
Posterior == "PosteriorSamplingExperiment"

\* The while test of line 85: where the run goes once is_finished is set.
WhileTarget(fin) == IF fin THEN "del" ELSE "method"

\* The `or` of lines 103-104: its right operand, _stop_experiment, is not
\* evaluated when its left operand, method.is_finished(), is true.
ShortCircuit(left) == left

\* IsFinished with `and` in place of `or`.
IsFinishedBothRequired(left, right) == left /\ right

\* The value assigned to is_finished at lines 103-104.
IsFinished(left, right) == left \/ right

\* The batches a method may return: x and y of the same length and of one
\* column each.  The values of y are read by OptimisationExperiment only.
Batches(k) ==
    {[x |-> EmptyX, y |-> EmptyY]} \cup
    {[x |-> [len |-> n, dim |-> 1], y |-> [len |-> n, dim |-> 1, min |-> v]] :
        n \in 1..MaxBatch,
        v \in IF k = Optimisation THEN YVals ELSE {1000}}

\* The entries a method call adds to function.counter: the method queries
\* the function once for each point it returns; an entry is its n_queried.
RECURSIVE Queries(_)
Queries(n) == IF n = 0 THEN <<>> ELSE Append(Queries(n - 1), 1)

\* The run ends with an exception raised at the current statement.
Raise(e) ==
    /\ pc' = "raised"
    /\ error' = e

\* No run is inside log_benchmarks.
NoBenchCalls ==
    /\ bench_pc = [p \in Procs |-> "idle"]
    /\ bench_id = [p \in Procs |-> 0]
    /\ bench_dumps = <<>>
    /\ bench_mode = "sequential"
    /\ bench_calls = 0

\* Experiment.__init__: the state of a constructed experiment.
Init ==
    /\ kind \in {Optimisation, Posterior}
    /\ pc = "idle"
    /\ error = "none"
    /\ epsilon = 0
    /\ absolute_improvement = FALSE
    /\ patience = 0
    /\ finish_line = None
    /\ log_data = TRUE
    /\ self_n_sampled = IF kind = Optimisation THEN None ELSE 0
    /\ optimals = <<>>
    /\ logger_ref = "None"
    /\ logger = NoLogger
    /\ counter = <<>>
    /\ is_finished = FALSE
    /\ n_sampled = 0
    /\ x = EmptyX
    /\ y = EmptyY
    /\ method_is_finished = None
    /\ stop_experiment = None
    /\ experiment_yaml = 0
    /\ benchmarks_yaml = 0
    /\ direct_calls = 0
    /\ NoBenchCalls
    /\ sampled_since = None

\* OptimisationExperiment.run / PosteriorSamplingExperiment.run, then
\* _perform_experiment up to the while loop (lines 67-84).
Run ==
    /\ pc = "idle"
    /\ \E line \in FinishLines, ld \in BOOLEAN :
        /\ finish_line' = line
        /\ log_data' = ld
    /\ IF kind = Optimisation
       THEN /\ epsilon' \in Epsilons
            /\ absolute_improvement' \in BOOLEAN
            /\ patience' \in Patiences
            /\ self_n_sampled' = None
       ELSE /\ UNCHANGED <<epsilon, absolute_improvement, patience>>
            /\ self_n_sampled' = 0
    /\ optimals' = <<>>
    /\ \E isTestFunction \in BOOLEAN :
        IF isTestFunction
        THEN /\ logger' = LoggerInit
             /\ logger_ref' = "set"
             /\ experiment_yaml' = LogExperiment(experiment_yaml)
             /\ benchmarks_yaml' = LogBenchmarks(benchmarks_yaml)
             /\ is_finished' = FALSE
             /\ n_sampled' = 0
             /\ pc' = WhileTarget(FALSE)
             /\ UNCHANGED error
        ELSE /\ Raise("Exception")
             /\ UNCHANGED <<logger, logger_ref, fileVars, is_finished,
                            n_sampled>>
    /\ UNCHANGED <<kind, counter, x, y, method_is_finished, stop_experiment,
                   direct_calls, sideVars>>

\* Lines 86-94: the iteration counter, the method call, the running total
\* and the method-call record.  The method is foreign code: it may raise.
CallMethod ==
    /\ pc = "method"
    /\ logger.method_calls < MaxIter
    /\ LET counted == [logger EXCEPT !.method_calls = @ + 1]
       IN  \/ /\ Raise("MethodError")
              /\ logger' = counted
              /\ UNCHANGED <<n_sampled, x, y, counter>>
           \/ \E b \in Batches(kind) :
                /\ x' = b.x
                /\ y' = b.y
                /\ n_sampled' = n_sampled + b.x.len
                /\ counter' = counter \o Queries(b.x.len)
                /\ logger' = LogMethodCalls(counted, n_sampled + b.x.len,
                                            b.x.len)
                /\ pc' = "log_samples"
                /\ UNCHANGED error
    /\ UNCHANGED <<kind, argVars, criterionVars, logger_ref, is_finished,
                   method_is_finished, stop_experiment, fileVars,
                   direct_calls, sideVars>>

\* Lines 96-97.
LogSamplesStep ==
    /\ pc = "log_samples"
    /\ IF log_data
       THEN LET r == LogSamples(logger, x, y)
            IN  /\ logger' = r.logger
                /\ IF r.error = "none"
                   THEN pc' = "log_function_calls" /\ UNCHANGED error
                   ELSE Raise(r.error)
       ELSE /\ pc' = "log_function_calls"
            /\ UNCHANGED <<logger, error>>
    /\ UNCHANGED <<kind, argVars, criterionVars, logger_ref, counter,
                   localVars, fileVars, direct_calls, sideVars>>

\* Line 99.
LogFunctionCallsStep ==
    /\ pc = "log_function_calls"
    /\ logger' = LogFunctionCalls(logger, counter)
    /\ pc' = "reset"
    /\ UNCHANGED <<kind, error, argVars, criterionVars, logger_ref, counter,
                   localVars, fileVars, direct_calls, sideVars>>

\* Line 100: function.reset() empties the counter.  The function is foreign
\* code: it may raise.
Reset ==
    /\ pc = "reset"
    /\ \/ /\ counter' = <<>>
          /\ pc' = "is_finished"
          /\ UNCHANGED error
       \/ /\ Raise("FunctionError")
          /\ UNCHANGED counter
    /\ UNCHANGED <<kind, argVars, criterionVars, logger_ref, logger,
                   localVars, fileVars, direct_calls, sideVars>>

\* Line 103: self.method.is_finished(), the left operand of the `or`.
IsFinishedStep ==
    /\ pc = "is_finished"
    /\ \E b \in BOOLEAN :
        /\ method_is_finished' = Some(b)
        /\ stop_experiment' = None
        /\ IF ShortCircuit(b)
           THEN /\ is_finished' = b
                /\ pc' = WhileTarget(b)
           ELSE /\ pc' = "stop_experiment"
                /\ UNCHANGED is_finished
    /\ UNCHANGED <<kind, error, argVars, criterionVars, logger_ref, logger,
                   counter, n_sampled, x, y, fileVars, direct_calls, sideVars>>

\* Line 104: self._stop_experiment(x, y), the right operand of the `or`,
\* and the assignment to is_finished.
StopExperimentStep ==
    /\ pc = "stop_experiment"
    /\ LET r == IF kind = Optimisation
                THEN OptimisationStop(self_n_sampled, optimals, x, y,
                                      finish_line, epsilon,
                                      absolute_improvement, patience)
                ELSE [PosteriorStop(self_n_sampled, x, finish_line)
                        EXCEPT !.n_sampled = @] @@ [optimals |-> optimals]
       IN  /\ self_n_sampled' = r.n_sampled
           /\ optimals' = r.optimals
           /\ IF r.error = "none"
              THEN /\ stop_experiment' = r.ret
                   /\ is_finished' = IsFinished(Val(method_is_finished),
                                                Val(r.ret))
                   /\ pc' = WhileTarget(is_finished')
                   /\ UNCHANGED error
              ELSE /\ Raise(r.error)
                   /\ UNCHANGED <<stop_experiment, is_finished>>
    /\ UNCHANGED <<kind, argVars, logger_ref, logger, counter, n_sampled,
                   x, y, method_is_finished, fileVars, direct_calls, sideVars>>

\* Line 106: del (self.logger).  The experiment held the only reference, so
\* the instance is finalised here and Logger.__del__ runs.
DelLogger ==
    /\ pc = "del"
    /\ logger' = LoggerDel(logger)
    /\ logger_ref' = "deleted"
    /\ pc' = "done"
    /\ UNCHANGED <<kind, error, argVars, criterionVars, counter, localVars,
                   fileVars, direct_calls, sideVars>>

Next ==
    \/ Run
    \/ CallMethod
    \/ LogSamplesStep
    \/ LogFunctionCallsStep
    \/ Reset
    \/ IsFinishedStep
    \/ StopExperimentStep
    \/ DelLogger

Spec == Init /\ [][Next]_vars

\* The interpreter keeps executing the run: a statement that can execute
\* does.  The method and the function are taken to return (or raise).
SpecFair == Spec /\ WF_vars(Next)

---------------------------------------------------------------------------
(* A Logger used on its own: constructed, then called directly *)

\* Logger(path, prefered_subfolder): the state after construction.
InitLogger ==
    /\ kind = "Logger"
    /\ \E k \in 0..HandleCount :
          /\ logger = CreateHandles(k)
          /\ pc = IF k = HandleCount THEN "logger" ELSE "logger_failed"
          /\ error = IF k = HandleCount THEN "none" ELSE "OSError"
    /\ epsilon = 0
    /\ absolute_improvement = FALSE
    /\ patience = 0
    /\ finish_line = None
    /\ log_data = TRUE
    /\ self_n_sampled = 0
    /\ optimals = <<>>
    /\ logger_ref = "set"
    /\ counter = <<>>
    /\ is_finished = FALSE
    /\ n_sampled = 0
    /\ x = EmptyX
    /\ y = EmptyY
    /\ method_is_finished = None
    /\ stop_experiment = None
    /\ experiment_yaml = 0
    /\ benchmarks_yaml = 0
    /\ direct_calls = 0
    /\ NoBenchCalls
    /\ sampled_since = None

\* logger.log_samples(x, y) with any two arrays; error is the exception
\* the call raised (the caller goes on), or "none".
DirectLogSamples ==
    /\ pc = "logger"
    /\ direct_calls < MaxLogCalls
    /\ \E lx \in 0..MaxBatch, ly \in 0..MaxBatch, dx \in Dims, dy \in Dims :
        LET bx == [len |-> lx, dim |-> dx]
            by == [len |-> ly, dim |-> dy, min |-> 0]
            r == LogSamples(logger, bx, by)
        IN  /\ x' = bx
            /\ y' = by
            /\ logger' = r.logger
            /\ error' = r.error
    /\ direct_calls' = direct_calls + 1
    /\ UNCHANGED <<kind, pc, argVars, criterionVars, logger_ref, counter,
                   is_finished, n_sampled, method_is_finished,
                   stop_experiment, fileVars, sideVars>>

\* The last reference to the instance goes (del logger, or the exception
\* of a failed construction is dropped): Logger.__del__ runs.
DirectDel ==
    /\ pc \in {"logger", "logger_failed"}
    /\ logger' = LoggerDel(logger)
    /\ logger_ref' = "deleted"
    /\ pc' = "logger_deleted"
    /\ UNCHANGED <<kind, error, argVars, criterionVars, counter, localVars,
                   fileVars, direct_calls, sideVars>>

NextLogger ==
    \/ DirectLogSamples
    \/ DirectDel

SpecLogger == InitLogger /\ [][NextLogger]_vars

---------------------------------------------------------------------------
(* Runs that share one base path: Logger.log_benchmarks *)

\* The state before any run on a base path that holds no benchmarks.yaml.
\* The runs are launched one after another (a run starts when no other is
\* inside log_benchmarks) or at the same time.
InitBench ==
    /\ kind = "Logger"
    /\ pc = "benchmarks"
    /\ error = "none"
    /\ epsilon = 0
    /\ absolute_improvement = FALSE
    /\ patience = 0
    /\ finish_line = None
    /\ log_data = TRUE
    /\ self_n_sampled = 0
    /\ optimals = <<>>
    /\ logger_ref = "None"
    /\ logger = NoLogger
    /\ counter = <<>>
    /\ is_finished = FALSE
    /\ n_sampled = 0
    /\ x = EmptyX
    /\ y = EmptyY
    /\ method_is_finished = None
    /\ stop_experiment = None
    /\ experiment_yaml = 0
    /\ benchmarks_yaml = 0
    /\ direct_calls = 0
    /\ bench_pc = [p \in Procs |-> "idle"]
    /\ bench_id = [p \in Procs |-> 0]
    /\ bench_dumps = <<>>
    /\ bench_mode \in {"sequential", "concurrent"}
    /\ bench_calls = 0
    /\ sampled_since = None

benchRest == <<kind, pc, error, argVars, criterionVars, logger_ref, logger,
               counter, localVars, experiment_yaml, direct_calls,
               sampled_since>>

\* Line 78 of a run: self.logger.log_benchmarks() is called.
BenchCall(p) ==
    /\ pc = "benchmarks"
    /\ bench_pc[p] = "idle"
    /\ bench_calls < MaxBenchCalls
    /\ bench_mode = "sequential" => \A q \in Procs : bench_pc[q] = "idle"
    /\ bench_calls' = bench_calls + 1
    /\ bench_id' = [bench_id EXCEPT ![p] = bench_calls + 1]
    /\ bench_pc' = [bench_pc EXCEPT ![p] = "exists"]
    /\ UNCHANGED <<benchRest, benchmarks_yaml, bench_dumps, bench_mode>>

\* Lines 436-437: return when the file exists.
BenchExists(p) ==
    /\ bench_pc[p] = "exists"
    /\ bench_pc' = [bench_pc EXCEPT ![p] =
                        IF BenchmarksExists(benchmarks_yaml) THEN "idle"
                        ELSE "open"]
    /\ UNCHANGED <<benchRest, benchmarks_yaml, bench_id, bench_dumps,
                   bench_mode, bench_calls>>

\* Line 438: open(..., "w") creates the file, or empties the one there is.
BenchOpen(p) ==
    /\ bench_pc[p] = "open"
    /\ benchmarks_yaml' = benchmarks_yaml + 1
    /\ bench_dumps' = <<>>
    /\ bench_pc' = [bench_pc EXCEPT ![p] = "dump"]
    /\ UNCHANGED <<benchRest, bench_id, bench_mode, bench_calls>>

\* Lines 439-445: the benchmarks run, yaml.dump writes their results and the
\* with block closes the file.
BenchDump(p) ==
    /\ bench_pc[p] = "dump"
    /\ bench_dumps' = Append(bench_dumps, bench_id[p])
    /\ bench_pc' = [bench_pc EXCEPT ![p] = "idle"]
    /\ UNCHANGED <<benchRest, benchmarks_yaml, bench_id, bench_mode,
                   bench_calls>>

NextBench ==
    \E p \in Procs :
        \/ BenchCall(p)
        \/ BenchExists(p)
        \/ BenchOpen(p)
        \/ BenchDump(p)

SpecBench == InitBench /\ [][NextBench]_vars

---------------------------------------------------------------------------
(* _sampled_since_last_improvement on its own *)

\* minima the scan is applied to, in hundredths: negative, zero, positive
ScanVals == {-100, 0, 100, 200}

\* The n_sampled list lines 206-209 build from batches of the given sizes.
RECURSIVE RunningTotals(_)
RunningTotals(sizes) ==
    IF sizes = <<>> THEN None
    ELSE CumulativeCount(RunningTotals(SubSeq(sizes, 1, Len(sizes) - 1)),
                         Last(sizes))

\* An OptimisationExperiment after L calls of _stop_experiment reached line
\* 213: one minimum and one running total per batch, every batch with at
\* least one point (numpy.min of an empty batch raises at line 212).
InitScan ==
    /\ kind = Optimisation
    /\ pc = "scan"
    /\ error = "none"
    /\ epsilon \in Epsilons
    /\ absolute_improvement \in BOOLEAN
    /\ patience = 0
    /\ finish_line = None
    /\ log_data = TRUE
    /\ \E L \in 1..MaxScanLen :
          /\ optimals \in [1..L -> ScanVals]
          /\ \E sizes \in [1..L -> 1..MaxBatch] :
                self_n_sampled = RunningTotals(sizes)
    /\ logger_ref = "None"
    /\ logger = NoLogger
    /\ counter = <<>>
    /\ is_finished = FALSE
    /\ n_sampled = 0
    /\ x = EmptyX
    /\ y = EmptyY
    /\ method_is_finished = None
    /\ stop_experiment = None
    /\ experiment_yaml = 0
    /\ benchmarks_yaml = 0
    /\ direct_calls = 0
    /\ NoBenchCalls
    /\ sampled_since = None

\* self._sampled_since_last_improvement() is called.
CallSampledSince ==
    /\ pc = "scan"
    /\ sampled_since' = Some(SampledSinceLastImprovement(
                                optimals, self_n_sampled, epsilon,
                                absolute_improvement))
    /\ pc' = "scanned"
    /\ UNCHANGED <<kind, error, argVars, criterionVars, logger_ref, logger,
                   counter, localVars, fileVars, direct_calls, benchVars>>

NextScan == CallSampledSince

SpecScan == InitScan /\ [][NextScan]_vars

---------------------------------------------------------------------------
(* Claims *)

\* At least one iteration has evaluated line 103 and the run has not raised.
Evaluated == method_is_finished # None

\* The sum of the batch sizes of all iterations so far, read from the
\* method-call records.
RECURSIVE SumNew(_)
SumNew(rows) == IF rows = <<>> THEN 0 ELSE Head(rows).new + SumNew(Tail(rows))

\* C1: the loop goes on to another iteration only when the method reported
\* is_finished() = false and _stop_experiment then returned false; it leaves
\* the loop only when one of the two was true; and _stop_experiment is
\* evaluated only after the method's self-report, when that was false.
C1_LoopHaltsAtFirstStop ==
    /\ (pc \in {"method", "log_samples", "log_function_calls", "reset",
                "is_finished"} /\ Evaluated)
          => (method_is_finished = Some(FALSE)
              /\ stop_experiment = Some(FALSE) /\ ~is_finished)
    /\ pc \in {"del", "done"}
          => (/\ is_finished
              /\ method_is_finished = Some(TRUE)
                    \/ stop_experiment = Some(TRUE))
    /\ stop_experiment # None => method_is_finished = Some(FALSE)
    /\ pc = "stop_experiment" => method_is_finished = Some(FALSE)
    /\ method_is_finished = Some(TRUE) => pc \in {"del", "done"}

\* C1 witness: the criterion halted a run whose earlier iteration went on.
C1_Witness ==
    /\ pc = "done"
    /\ stop_experiment = Some(TRUE)
    /\ logger.method_calls >= 2

\* C2 (as claimed): once the Logger exists, no handle is open when the run
\* has returned or raised.
C2_HandlesClosedOnEveryExit ==
    (pc \in {"done", "raised"} /\ logger_ref # "None")
        => \A h \in Handles : logger.handles[h] # "open"

\* C3: an evaluation of the optimisation criterion whose cumulative count
\* exceeds a numeric finish_line returns stop, ends the loop, raises nothing
\* and appends nothing to optimals.
C3_HardCapStops ==
    [][(/\ pc = "stop_experiment"
        /\ kind = Optimisation
        /\ finish_line # None
        /\ Last(self_n_sampled') > Val(finish_line))
       => (/\ stop_experiment' = Some(TRUE)
           /\ is_finished'
           /\ pc' = "del"
           /\ optimals' = optimals)]_vars

\* C3 witness: the cap stopped a run that has an improvement history.
C3_Witness ==
    /\ kind = Optimisation
    /\ pc = "del"
    /\ stop_experiment = Some(TRUE)
    /\ finish_line # None
    /\ Last(self_n_sampled) > Val(finish_line)
    /\ Len(optimals) >= 1
    /\ Len(optimals) = Len(self_n_sampled) - 1

\* C4 (as claimed): an optimisation run with a numeric finish_line never
\* goes on to another iteration once the total number of sampled points has
\* reached finish_line.
C4_StopsWhenFinishLineReached ==
    (/\ kind = Optimisation
     /\ finish_line # None
     /\ pc = "method"
     /\ Evaluated)
        => n_sampled < Val(finish_line)

\* C5: with a numeric finish_line the posterior-sampling criterion returns
\* true exactly when the sum of the batch sizes so far is >= finish_line, so
\* the run goes on while the sum is below it and stops at the first
\* iteration that reaches it.
C5_PosteriorStopsIffReached ==
    (/\ kind = Posterior
     /\ finish_line # None
     /\ stop_experiment # None
     /\ pc \in {"method", "del", "done"})
        => /\ Val(stop_experiment)
                = (SumNew(logger.methodcalls) >= Val(finish_line))
           /\ self_n_sampled = SumNew(logger.methodcalls)

\* C5 witness: finish_line 5 and three batches; the run stops at the third
\* iteration, the first whose total reaches 5.
C5_Witness ==
    /\ kind = Posterior
    /\ pc = "del"
    /\ finish_line = Some(5)
    /\ stop_experiment = Some(TRUE)
    /\ logger.method_calls = 3
    /\ self_n_sampled >= 5

\* C6 (as claimed): with finish_line = None no evaluation of a stopping
\* criterion raises.
C6_NoneDisablesCap ==
    (finish_line = None /\ logger_ref # "None") => error # "TypeError"

\* Every minimum is lower than the one before it by more than eps.
StrictlyImproving(opt, eps) ==
    \A i \in 1..(Len(opt) - 1) : opt[i] - opt[i + 1] > eps

\* C7 (as claimed): with absolute_improvement and epsilon > 0, a run whose
\* every iteration improves on the previous one by more than epsilon is
\* stopped by the criterion only through the hard cap.
C7_ImprovingRunNotStoppedByPatience ==
    (/\ kind = Optimisation
     /\ absolute_improvement
     /\ finish_line # None
     /\ pc = "del"
     /\ stop_experiment = Some(TRUE)
     /\ StrictlyImproving(optimals, epsilon))
        => Last(self_n_sampled) > Val(finish_line)

C8Minima == <<1000, 900, 895, 890>>

\* The run of C8 so far: its arguments, one point per iteration, the minima
\* 10, 9, 8.95, 8.9 in this order, a method that never reports finished.
C8Scenario ==
    /\ kind = Optimisation
    /\ epsilon = 10
    /\ absolute_improvement
    /\ patience = 2
    /\ finish_line = None
    /\ logger.method_calls \in 1..4
    /\ \A i \in 2..Len(logger.methodcalls) : logger.methodcalls[i].new = 1
    /\ x.len = 1
    /\ y.min = C8Minima[logger.method_calls]
    /\ Len(optimals) <= 4
    /\ optimals = SubSeq(C8Minima, 1, Len(optimals))
    /\ method_is_finished # Some(TRUE)
    /\ error \notin {"MethodError", "FunctionError"}

\* C8 (as claimed): in that run the criterion raises nothing and returns
\* false up to and including the 4th iteration.
C8_ScenarioContinues ==
    C8Scenario => (error = "none" /\ stop_experiment # Some(TRUE))

\* C9 (as claimed): an iteration whose batch has zero points raises no
\* error in log_samples (IndexError) nor in the criterion (ValueError).
C9_EmptyBatchRaisesNothing ==
    (logger.method_calls >= 1 /\ x.len = 0)
        => error \notin {"IndexError", "ValueError"}

\* C10 (as claimed): log_samples(x, y) with len(x) # len(y) raises and
\* leaves the samples stream and create_samples_header as they were.
C10_MismatchRejectedBeforeWrite ==
    [][(direct_calls' = direct_calls + 1 /\ x'.len # y'.len)
       => (/\ error' # "none"
           /\ logger'.samples = logger.samples
           /\ logger'.create_samples_header = logger.create_samples_header)]_vars

\* C11 (as claimed): when an iteration has completed, every line written
\* to the three streams has left the writer's buffer.
C11_FlushedAfterEveryIteration ==
    (pc = "method" /\ Evaluated)
        => \A h \in Handles : logger.flushed[h] = Len(Stream(logger, h))

\* No run is inside log_benchmarks.
BenchIdle == \A p \in Procs : bench_pc[p] = "idle"

\* C12: when the runs on a base path follow one another, benchmarks.yaml
\* is opened for writing once, by the first call, and holds that call's
\* dump alone; once the first call has returned, whatever later calls do,
\* the file holds exactly the first call's dump.
C12_BenchmarksWrittenByFirstRunOnly ==
    bench_mode = "sequential"
        => /\ benchmarks_yaml <= 1
           /\ bench_dumps \in {<<>>, <<1>>}
           /\ (BenchIdle /\ bench_calls >= 1)
                => (benchmarks_yaml = 1 /\ bench_dumps = <<1>>)

\* C12 witness: three runs in a row have returned from log_benchmarks and
\* the file is the one the first wrote.
C12_Witness ==
    /\ bench_mode = "sequential"
    /\ bench_calls = 3
    /\ BenchIdle
    /\ benchmarks_yaml = 1
    /\ bench_dumps = <<1>>

\* C13 (as claimed): however the calls of runs on one base path interleave,
\* the file is opened for writing at most once and holds at most one dump.
C13_AtMostOneWriter ==
    benchmarks_yaml <= 1 /\ Len(bench_dumps) <= 1

\* C14: once a run has its Logger, experiment.yaml and benchmarks.yaml have
\* each been written exactly once, and this is so before the method is
\* first called and in every later state: no iteration writes either file.
\* Before the Logger exists neither is written and the method was not called.
C14_SnapshotsOnceBeforeSampling ==
    /\ logger_ref = "None"
          => (/\ experiment_yaml = 0
              /\ benchmarks_yaml = 0
              /\ logger.method_calls = 0)
    /\ logger_ref # "None"
          => (experiment_yaml = 1 /\ benchmarks_yaml = 1)

\* C14 witness: a run of three iterations has ended.
C14_Witness ==
    /\ pc = "done"
    /\ logger.method_calls = 3
    /\ experiment_yaml = 1
    /\ benchmarks_yaml = 1

\* The data rows of a stream: its lines after the header.
DataRows(stream) == IF stream = <<>> THEN <<>> ELSE Tail(stream)

\* C16: the method-calls stream holds one data row per iteration whose
\* method call returned; row i has id i and a total that is the sum of the
\* new sizes of rows 1..i, and the latest row's new size is the size of the
\* batch the method just returned.
C16_OneMethodCallRowPerIteration ==
    LET rows == DataRows(logger.methodcalls)
    IN  /\ Len(rows) = IF error = "MethodError"
                       THEN logger.method_calls - 1
                       ELSE logger.method_calls
        /\ \A i \in 1..Len(rows) :
              /\ ~rows[i].header
              /\ rows[i].id = i
              /\ rows[i].total = SumNew(SubSeq(rows, 1, i))
        /\ (rows # <<>> /\ error # "MethodError") => Last(rows).new = x.len

\* C16 witness: three iterations with batches of 2, 0 and 1 points.
C16_Witness ==
    /\ pc = "done"
    /\ Len(logger.methodcalls) = 4
    /\ logger.methodcalls[2].new = 2
    /\ logger.methodcalls[3].new = 0
    /\ logger.methodcalls[4].new = 1
    /\ logger.methodcalls[4].total = 3

\* The iterations whose function calls have been logged.
FunctionCallsLogged ==
    IF pc \in {"log_samples", "log_function_calls"}
       \/ error \in {"MethodError", "IndexError"}
    THEN logger.method_calls - 1
    ELSE logger.method_calls

\* The function-call rows of iterations 1..k: for each iteration, in order,
\* one row per query the method made in it.
RECURSIVE ExpectedFunctionCalls(_, _)
ExpectedFunctionCalls(mrows, k) ==
    IF k = 0 THEN <<>>
    ELSE ExpectedFunctionCalls(mrows, k - 1)
         \o [j \in 1..mrows[k].new |->
                [header |-> FALSE, id |-> k, n_queried |-> 1]]

\* C17: the function-calls stream holds, for every iteration whose function
\* calls were logged, exactly the entries the function counted in that
\* iteration, tagged with its id, in order; the entries of the iteration in
\* progress stay in the counter until they are logged, the counter is
\* emptied only after that, and it is empty when an iteration starts.
C17_FunctionCallsLoggedOnce ==
    logger_ref # "None"
        => /\ DataRows(logger.functioncalls)
                = ExpectedFunctionCalls(DataRows(logger.methodcalls),
                                        FunctionCallsLogged)
           /\ pc \in {"method", "is_finished", "stop_experiment", "del",
                      "done"} => counter = <<>>
           /\ pc \in {"log_samples", "log_function_calls", "reset"}
                 => Len(counter) = x.len

\* C17 witness: two iterations of 2 and 1 queries are logged and the counter
\* is empty again.
C17_Witness ==
    /\ pc = "method"
    /\ logger.method_calls = 2
    /\ counter = <<>>
    /\ Len(logger.functioncalls) = 4
    /\ logger.functioncalls[2].id = 1
    /\ logger.functioncalls[3].id = 1
    /\ logger.functioncalls[4].id = 2

\* A sequence of numbers never decreases.
NonDecreasing(ns) == \A i \in 1..(Len(ns) - 1) : ns[i] <= ns[i + 1]

\* C20: when an iteration after the first starts, the optimisation
\* criterion has one optimals entry and one n_sampled entry per completed
\* iteration, n_sampled never decreases and its last entry is the loop's
\* running total, which is the total of the last method-call row; the
\* posterior-sampling criterion's n_sampled is that running total too.
C20_CriterionStateTracksLoop ==
    (pc = "method" /\ Evaluated)
        => /\ n_sampled = Last(logger.methodcalls).total
           /\ IF kind = Optimisation
              THEN /\ Len(optimals) = logger.method_calls
                   /\ Len(self_n_sampled) = logger.method_calls
                   /\ NonDecreasing(self_n_sampled)
                   /\ Last(self_n_sampled) = n_sampled
              ELSE self_n_sampled = n_sampled

\* C20 witness: the third iteration of an optimisation run is about to
\* start after batches of different sizes.
C20_Witness ==
    /\ kind = Optimisation
    /\ pc = "method"
    /\ logger.method_calls = 2
    /\ Len(self_n_sampled) = 2
    /\ self_n_sampled[1] = 1
    /\ self_n_sampled[2] = 3

\* The header lines among the lines of a stream.
Headers(stream) == {i \in 1..Len(stream) : stream[i].header}

\* C15 (as claimed): over the log_samples calls on one Logger whose x and y
\* have the same number of points, a call with no points made while the
\* header is still to be written raises nothing and writes nothing; the
\* first call with points writes the header, with the column counts of its
\* batch, before its rows; every later call leaves that header as the only
\* one.
C15_HeaderOnceByFirstNonEmptyCall ==
    [][(direct_calls' = direct_calls + 1 /\ x'.len = y'.len)
       => /\ (logger.create_samples_header /\ x'.len = 0)
                => (/\ error' = "none"
                    /\ logger'.samples = <<>>
                    /\ logger'.create_samples_header)
          /\ (logger.create_samples_header /\ x'.len > 0)
                => (/\ error' = "none"
                    /\ ~logger'.create_samples_header
                    /\ Headers(logger'.samples) = {1}
                    /\ logger'.samples[1].nx = x'.dim
                    /\ logger'.samples[1].ny = y'.dim)
          /\ ~logger.create_samples_header
                => (/\ ~logger'.create_samples_header
                    /\ Headers(logger'.samples) = {1}
                    /\ logger'.samples[1] = logger.samples[1])]_vars

\* C19: when a Logger is released every handle it has is closed and the
\* ones it never got stay missing, no error is raised, no handle is open
\* afterwards, and nothing happens to the handles of a released Logger.
C19_ReleaseClosesOpenedHandles ==
    [][/\ (logger_ref # "deleted" /\ logger_ref' = "deleted")
            => (/\ \A h \in Handles :
                      logger'.handles[h] =
                          IF logger.handles[h] = "absent" THEN "absent"
                          ELSE "closed"
                /\ error' = error)
       /\ logger_ref' = "deleted"
            => \A h \in Handles : logger'.handles[h] # "open"
       /\ logger_ref = "deleted" => logger'.handles = logger.handles]_vars

\* C19 witness: a Logger whose third open failed has been released.
C19_Witness ==
    /\ logger_ref = "deleted"
    /\ logger.handles["samples"] = "closed"
    /\ logger.handles["functioncalls"] = "closed"
    /\ logger.handles["methodcalls"] = "absent"

\* The candidates of the scan: every index but the first and the last
\* whose condition exceeds epsilon.
Candidates(opt, eps, absolute) ==
    {j \in 2..(Len(opt) - 1) : Condition(opt, j, eps, absolute)}

\* The largest member of a non-empty set of numbers.
Largest(S) == CHOOSE j \in S : \A k \in S : k <= j

\* C18: _sampled_since_last_improvement returns the points sampled since
\* the largest candidate index, or since the first entry when there is no
\* candidate; the first and the last entry are never candidates, so a list
\* of one entry gives 0.
C18_SampledSinceLargestCandidate ==
    pc = "scanned"
        => LET cand == Candidates(optimals, epsilon, absolute_improvement)
               since == IF cand = {} THEN 1 ELSE Largest(cand)
           IN  /\ Val(sampled_since)
                     = Last(self_n_sampled) - self_n_sampled[since]
               /\ Len(optimals) = 1 => Val(sampled_since) = 0

\* C18 witness: four entries, the second a candidate and the third not,
\* while the first and the last would pass the test themselves.
C18_Witness ==
    /\ pc = "scanned"
    /\ Len(optimals) = 4
    /\ Candidates(optimals, epsilon, absolute_improvement) = {2}
    /\ Condition(optimals, 1, epsilon, absolute_improvement)
    /\ Condition(optimals, 4, epsilon, absolute_improvement)
    /\ self_n_sampled = <<1, 3, 4, 6>>
    /\ sampled_since = Some(3)

\* The most iterations a run with the finish line `line` can start when
\* every batch has a point: the posterior criterion stops at total >= line,
\* the optimisation criterion at total > line.
IterationBound(k, line) == IF k = Posterior THEN line ELSE line + 1

\* Every batch the method returned so far had at least one point.
NonEmptyBatches ==
    \A i \in 1..Len(DataRows(logger.methodcalls)) :
        DataRows(logger.methodcalls)[i].new >= 1

\* The run is over: the loop was left or an exception ended it.
Halted == pc \in {"done", "raised"}

\* The run's bound lies within the iterations the model follows.
WithinHorizon == IterationBound(kind, Val(finish_line)) <= MaxIter

\* C21, the bound: with a finish line and no empty batch, the number of
\* iterations started never exceeds IterationBound, whatever is_finished()
\* answers.
IterationsBounded ==
    (finish_line # None /\ NonEmptyBatches)
        => logger.method_calls <= IterationBound(kind, Val(finish_line))

\* C21, termination: a run that is started halts, unless it has no finish
\* line, the method returned an empty batch, or its bound lies beyond the
\* iterations followed.
EventuallyHalts ==
    <>(\/ Halted
       \/ /\ pc # "idle"
          /\ \/ finish_line = None
             \/ ~NonEmptyBatches
             \/ ~WithinHorizon)

\* C21: with a finish line of at least 1 and batches of at least one point
\* the loop halts, after at most finish_line iterations of a posterior
\* sampling run and finish_line + 1 iterations of an optimisation run, even
\* if the method never reports that it is finished.
C21_HaltsWithinFinishLine == []IterationsBounded /\ EventuallyHalts

\* C21 witness: an optimisation run with finish_line = 2 whose method never
\* finished and returned one point at a time was stopped in its third
\* iteration.
C21_Witness ==
    /\ kind = Optimisation
    /\ finish_line = Some(2)
    /\ pc = "done"
    /\ logger.method_calls = 3
    /\ n_sampled = 3
    /\ NonEmptyBatches
    /\ method_is_finished = Some(FALSE)
    /\ stop_experiment = Some(TRUE)

\* The second half of C21: a posterior sampling run with a finish line
\* whose method returns empty batches and never finishes is still in its
\* loop after every iteration the model follows.
PosteriorRunsOnEmptyBatches ==
    /\ kind = Posterior
    /\ finish_line # None
    /\ pc = "method"
    /\ logger.method_calls = MaxIter
    /\ n_sampled = 0
    /\ method_is_finished = Some(FALSE)
    /\ stop_experiment = Some(FALSE)

===========================================================================
